---- MODULE Spec2Model ----
(***************************************************************************)
(* Batch transcription pipeline of vtt-generator:                          *)
(*   api/whisper_api.py  run_openai_batch_transcription and its helpers    *)
(*   s3.py               scan_bucket_for_recent_media                      *)
(*   file_validation.py  validate_file, sanitize_filename                  *)
(*                                                                         *)
(* Strings that the code inspects character by character (object keys,     *)
(* file names) are sequences of one-character strings.  The storage        *)
(* service, the transcription API and the local file system are the        *)
(* environment: their answers are chosen nondeterministically at the call. *)
(***************************************************************************)
EXTENDS Integers, Sequences, FiniteSets, Bags, TLC

\* ------------------------------------------------------------------ bounds
\* Largest number of objects one bucket listing returns, over all pages.
MaxObjects == 2
\* Largest number of pages one bucket listing is split into.
MaxPages == 2

\* ----------------------------------------------------------- configuration
MAX_FILE_SIZE == 2
TIME_WINDOW == 5
ALLOWED_EXTENSIONS == { <<".", "m", "p", "4">>, <<".", "m", "p", "3">> }
ALLOWED_MIME_TYPES == { "video/mp4", "audio/mpeg" }
\* datetime.now(timezone.utc) at the start of the scan, in minutes.
Now == 10

\* ------------------------------------------------------- string functions
MaxOf(S) == CHOOSE x \in S : \A y \in S : y <= x

\* str.rfind(c), 1-based; 0 when c does not occur.
RFind(p, c) ==
    LET hits == { i \in 1..Len(p) : p[i] = c }
    IN  IF hits = {} THEN 0 ELSE MaxOf(hits)

\* os.path.basename
Basename(p) == SubSeq(p, RFind(p, "/") + 1, Len(p))

\* os.path.splitext: the extension starts at the last dot of the last path
\* component, unless only dots precede it in that component.
Splitext(p) ==
    LET sepIndex == RFind(p, "/")
        dotIndex == RFind(p, ".")
    IN  IF /\ dotIndex > sepIndex
           /\ \E i \in (sepIndex + 1)..(dotIndex - 1) : p[i] # "."
        THEN << SubSeq(p, 1, dotIndex - 1), SubSeq(p, dotIndex, Len(p)) >>
        ELSE << p, << >> >>

LowerChar(c) ==
    CASE c = "M" -> "m"
      [] c = "P" -> "p"
      [] c = "C" -> "c"
      [] OTHER   -> c

\* str.lower
Lower(p) == [ i \in 1..Len(p) |-> LowerChar(p[i]) ]

\* str.endswith(tuple)
EndsWithAny(p, suffixes) ==
    \E s \in suffixes :
        /\ Len(s) <= Len(p)
        /\ SubSeq(p, Len(p) - Len(s) + 1, Len(p)) = s

\* Characters matched by \w in a Python 3 str pattern: letters and digits of
\* any script and the underscore.
WordChars ==
    { "a", "b", "c", "l", "m", "n", "o", "p", "t", "x", "v", "g",
      "C", "M", "P", "3", "4", "_", "e_acute" }

\* sanitize_filename as it would be if it also removed one leading dot of
\* the base name.
sanitize_filename_StripDot(filename) ==
    LET b0 == Basename(filename)
        b == IF b0 # << >> /\ b0[1] = "." THEN Tail(b0) ELSE b0
    IN  [ i \in 1..Len(b) |->
            IF b[i] \in WordChars \cup { "-", "." } THEN b[i] ELSE "_" ]

\* file_validation.sanitize_filename
sanitize_filename(filename) ==
    LET b == Basename(filename)
    IN  [ i \in 1..Len(b) |->
            IF b[i] \in WordChars \cup { "-", "." } THEN b[i] ELSE "_" ]

\* filetype.guess(contents): the type read from the magic bytes, "none"
\* when nothing matches.  Contents are [magic, size].
guess(contents) == contents.magic

\* validate_file with the size compared by >=.
validate_file_SizeInclusive(filename, contents) ==
    LET ext == Lower(Splitext(filename)[2])
    IN  IF filename = << >> THEN "No filename provided"
        ELSE IF ext \notin ALLOWED_EXTENSIONS THEN "File type not supported"
        ELSE IF guess(contents) = "none"
                \/ guess(contents) \notin ALLOWED_MIME_TYPES
             THEN "File type is not accepted"
        ELSE IF contents.size >= MAX_FILE_SIZE
             THEN "File size exceeds the limit"
        ELSE "ok"

\* file_validation.validate_file: "ok" when it returns, else the detail of
\* the HTTPException(400) it raises.
validate_file(filename, contents) ==
    LET ext == Lower(Splitext(filename)[2])
    IN  IF filename = << >> THEN "No filename provided"
        ELSE IF ext \notin ALLOWED_EXTENSIONS THEN "File type not supported"
        ELSE IF guess(contents) = "none"
                \/ guess(contents) \notin ALLOWED_MIME_TYPES
             THEN "File type is not accepted"
        ELSE IF contents.size > MAX_FILE_SIZE THEN "File size exceeds the limit"
        ELSE "ok"

\* PassesFilter with the window compared strictly.
PassesFilter_StrictWindow(o) ==
    /\ EndsWithAny(Lower(o.Key), ALLOWED_EXTENSIONS)
    /\ o.LastModified > Now - TIME_WINDOW

\* s3.scan_bucket_for_recent_media, the filter of line 43.
PassesFilter(o) ==
    /\ EndsWithAny(Lower(o.Key), ALLOWED_EXTENSIONS)
    /\ o.LastModified >= Now - TIME_WINDOW


\* ---------------------------------------------------------- the environment
KeyA == << "a", "/", "c", ".", "m", "p", "4" >>
KeyB == << "b", "/", "c", ".", "M", "P", "4" >>
KeyT == << "t", ".", "m", "p", "4" >>
KeyN == << "n", ".", "t", "x", "t" >>
KeyH == << "a", "/", ".", "m", "p", "4" >>
Keys == { KeyA, KeyB, KeyT, KeyN, KeyH }

LastModifiedValues == (Now - TIME_WINDOW - 1)..(Now - TIME_WINDOW + 1)

Contents ==
    [ magic : { "video/mp4", "image/png", "none" },
      size  : MAX_FILE_SIZE..(MAX_FILE_SIZE + 1) ]

\* One entry of a listing page, with the bytes the object holds and whether
\* s3.download_file and the read of the temp file succeed for it.
Objects ==
    [ Key : Keys, LastModified : LastModifiedValues, Body : Contents,
      Readable : BOOLEAN ]

NoObject == [ Key |-> << >> ]

\* Answers of client.audio.transcriptions.create, and "Exception" for any
\* other failure inside the try block of transcribe_with_openai_api.
\* message is e.message, which is also str(e).
ApiResults ==
    { [ type |-> "ok" ],
      [ type |-> "RateLimitError", message |-> "boom" ],
      [ type |-> "APIConnectionError", message |-> "boom" ],
      [ type |-> "APIStatusError", status_code |-> 401, message |-> "boom" ],
      [ type |-> "APIStatusError", status_code |-> 500, message |-> "boom" ],
      [ type |-> "OpenAIError", message |-> "boom" ],
      [ type |-> "Exception", message |-> "boom" ] }

\* Wall-clock times (America/Chicago) at which a run starts.
StartTimes ==
    { [ date |-> 1, hour |-> 3, minute |-> 0, second |-> 0 ],
      [ date |-> 1, hour |-> 15, minute |-> 0, second |-> 0 ] }

\* strftime("%Y-%m-%d_%I-%M-%S"): %I is the hour on the 12-hour clock.
strftime(t) ==
    [ date |-> t.date,
      I    |-> IF t.hour % 12 = 0 THEN 12 ELSE t.hour % 12,
      M    |-> t.minute,
      S    |-> t.second ]

NoTimestamp == [ date |-> 0 ]

LogName == << "l", "o", "g", ".", "t", "x", "t" >>
VttExt == << ".", "v", "t", "t" >>

\* ------------------------------------- api/whisper_api.py, pure functions
\* transcribe_with_openai_api, lines 42-43: the name of the subtitle file.
VttName(original_filename) ==
    Splitext(Basename(original_filename))[1] \o VttExt

\* transcribe_with_openai_api, lines 50-81: the HTTPException raised for an
\* API failure.  A detail is the fixed text followed by the interpolated
\* message, where the f-string has one.
HTTPExceptionOf(api) ==
    CASE api.type = "RateLimitError" ->
            [ status_code |-> 429, detail |-> << "Rate limit exceeded" >> ]
      [] api.type = "APIConnectionError" ->
            [ status_code |-> 503, detail |-> << "Service unavailable" >> ]
      [] api.type = "APIStatusError" ->
            IF api.status_code = 401
            THEN [ status_code |-> 401,
                   detail |-> << "Invalid or expired OpenAI API Key." >> ]
            ELSE [ status_code |-> api.status_code,
                   detail |-> << "OpenAI API error: ",
                                 IF api.message = ""
                                 THEN "Unexpected response from OpenAI"
                                 ELSE api.message >> ]
      [] api.type = "OpenAIError" ->
            [ status_code |-> 500,
              detail |-> << "OpenAI API error: ", api.message >> ]
      [] OTHER ->
            [ status_code |-> 500,
              detail |-> << "Unexpected error during transcription: ",
                            api.message >> ]

\* summarize_batch_results with the test for failures made first.
summarize_FailuresFirst(success, failure, errors, empty_flag) ==
    IF failure > 0
    THEN [ status |-> "partial_success",
           message |-> << success, "files succeeded", failure, "failed" >>,
           errors |-> errors ]
    ELSE IF success = 0
    THEN IF empty_flag
         THEN [ status |-> "failed", message |-> "No files to transcribe" ]
         ELSE [ status |-> "failed",
                message |-> "All files failed to transcribe.",
                errors |-> errors ]
    ELSE [ status |-> "success",
           message |-> "All files transcribed successfully." ]

\* summarize_batch_results
summarize_batch_results(success, failure, errors, empty_flag) ==
    IF success = 0
    THEN IF empty_flag
         THEN [ status |-> "failed", message |-> "No files to transcribe" ]
         ELSE [ status |-> "failed",
                message |-> "All files failed to transcribe.",
                errors |-> errors ]
    ELSE IF failure > 0
    THEN [ status |-> "partial_success",
           message |-> << success, "files succeeded", failure, "failed" >>,
           errors |-> errors ]
    ELSE [ status |-> "success",
           message |-> "All files transcribed successfully." ]

NoResult == [ status |-> "none" ]

\* An exception: its class and the function whose code raised it.
NoExc == [ type |-> "none", raised_in |-> "none" ]

\* ------------------------------------------------------------------ state
VARIABLES
    pc,             \* position of run_openai_batch_transcription
    exc,            \* exception propagating out of the run, or NoExc
    timestamp,      \* run_openai_batch_transcription.timestamp
    wsExists,       \* the directory /tmp/{timestamp} exists
    logFile,        \* lines of {output_dir}/log.txt, as a set
    outFiles,       \* other files of output_dir: name -> key transcribed
    tmpFiles,       \* NamedTemporaryFile files that exist in the temp dir
    pagesFetched,   \* scan: pages the paginator has returned
    pageLeft,       \* scan: objects of the current page not yet examined
    objsSeen,       \* scan: objects examined
    obj,            \* scan: the object of the last iteration
    media_files,    \* list of [key, tmp_path]
    empty_s3_flag,
    idx,            \* process_batch_files: candidates handled
    attempts,       \* calls of transcribe_with_openai_api: [key, api answer]
    success_count,
    failure_count,
    error_summary,
    pending,        \* upload_output_to_s3: names of os.listdir still to do
    puts,           \* bag of calls s3.upload_file(key, body)
    stored,         \* objects written to the bucket: key -> body
    rmtreeCalls,    \* calls of shutil.rmtree
    result,         \* value returned by the run
    call,           \* a direct call of one function: its name and arguments
    rets,           \* values that call and its repetitions returned
    hits,           \* limiter: requests counted in the current window
    served,         \* POST /batch-generate-vtt: requests and their answers
    clock,          \* wall clock shared by the runs of one machine
    source,         \* the media object of the bucket, or NoObject
    outputs,        \* objects the runs have put: key -> [by, LastModified]
    dirs,           \* workspace directories that exist under /tmp
    files,          \* files of these directories: [dir, name, by]
    rpc,            \* per run: position of run_openai_batch_transcription
    rstart,         \* per run: datetime.now of line 85
    rts,            \* per run: timestamp
    rcands,         \* per run: media_files, keys only
    rsucc,          \* per run: success_count
    rfailed,        \* per run: error_summary
    rexc,           \* per run: exception propagating, or NoExc
    rresult         \* per run: value returned

runVars ==
    << pc, exc, timestamp, wsExists, logFile, outFiles, tmpFiles,
       pagesFetched, pageLeft, objsSeen, obj, media_files, empty_s3_flag,
       idx, attempts, success_count, failure_count, error_summary,
       pending, puts, stored, rmtreeCalls, result >>

fnVars == << call, rets >>
httpVars == << hits, served >>
multiVars ==
    << clock, source, outputs, dirs, files, rpc, rstart, rts, rcands,
       rsucc, rfailed, rexc, rresult >>
auxVars == << fnVars, httpVars, multiVars >>
vars == << runVars, auxVars >>

scanVars == << pagesFetched, pageLeft, objsSeen, obj, media_files >>
procVars == << idx, attempts, success_count, failure_count, error_summary >>
upVars == << pending, puts, stored >>
fsVars == << wsExists, logFile, outFiles, tmpFiles, rmtreeCalls >>

RunInit ==
    /\ pc = "init"
    /\ exc = NoExc
    /\ timestamp = NoTimestamp
    /\ wsExists = FALSE
    /\ logFile = {}
    /\ outFiles = << >>
    /\ tmpFiles = {}
    /\ pagesFetched = 0
    /\ pageLeft = 0
    /\ objsSeen = 0
    /\ obj = NoObject
    /\ media_files = << >>
    /\ empty_s3_flag = FALSE
    /\ idx = 0
    /\ attempts = << >>
    /\ success_count = 0
    /\ failure_count = 0
    /\ error_summary = << >>
    /\ pending = {}
    /\ puts = EmptyBag
    /\ stored = << >>
    /\ rmtreeCalls = 0
    /\ result = NoResult

\* No function is called directly.
NoCall == [ fn |-> "none" ]

FnInit == call = NoCall /\ rets = << >>

\* The service has just started: the limiter has counted nothing.
HttpInit == hits = 0 /\ served = << >>

\* Runs of run_openai_batch_transcription on one machine, numbered in the
\* order in which they start.
MaxRuns == 2
Runs == 1..MaxRuns

\* Values of the wall clock: a second, the next second, and the same
\* second twelve hours later.
ClockValues ==
    StartTimes \cup { [ date |-> 1, hour |-> 3, minute |-> 0, second |-> 1 ] }

\* A wall-clock time in seconds.
Seconds(t) == ((t.date * 24 + t.hour) * 60 + t.minute) * 60 + t.second

FirstClock == CHOOSE t \in ClockValues :
                  \A u \in ClockValues : Seconds(t) <= Seconds(u)

\* Contents validate_file accepts and contents it rejects.
GoodBody == [ magic |-> "video/mp4", size |-> MAX_FILE_SIZE ]
BadBody == [ magic |-> "image/png", size |-> MAX_FILE_SIZE ]

\* No run has started; the bucket holds one media object, modified one
\* second after the start of the window of a scan made now.
MultiInit ==
    /\ clock = FirstClock
    /\ source = [ Key |-> KeyT,
                  LastModified |-> Seconds(FirstClock) - TIME_WINDOW * 60 + 1,
                  Body |-> GoodBody ]
    /\ outputs = << >>
    /\ dirs = {}
    /\ files = {}
    /\ rpc = [ r \in Runs |-> "idle" ]
    /\ rstart = [ r \in Runs |-> FirstClock ]
    /\ rts = [ r \in Runs |-> NoTimestamp ]
    /\ rcands = [ r \in Runs |-> << >> ]
    /\ rsucc = [ r \in Runs |-> 0 ]
    /\ rfailed = [ r \in Runs |-> << >> ]
    /\ rexc = [ r \in Runs |-> NoExc ]
    /\ rresult = [ r \in Runs |-> NoResult ]

Init == RunInit /\ FnInit /\ HttpInit /\ MultiInit

\* An exception leaves the try block of run_openai_batch_transcription:
\* control goes to the finally clause.
Raise(e, fn) == pc' = "finally" /\ exc' = [ type |-> e, raised_in |-> fn ]

\* setup_transcription_directory, called before the try block (lines 85-86).
Setup ==
    /\ pc = "init"
    /\ \E t \in StartTimes, fs \in { "ok", "makedirs fails", "write fails" } :
        /\ timestamp' = strftime(t)
        /\ wsExists' = (fs # "makedirs fails")
        /\ IF fs = "ok"
           THEN /\ logFile' = { [ line |-> "started" ] }
                /\ pc' = "scanning"
                /\ exc' = exc
           ELSE /\ logFile' = logFile
                /\ pc' = "done"
                /\ exc' = [ type |-> "OSError",
                             raised_in |-> "setup_transcription_directory" ]
    /\ UNCHANGED << auxVars,
                    outFiles, tmpFiles, rmtreeCalls, scanVars,
                    empty_s3_flag, procVars, upVars, result >>


\* tempfile.NamedTemporaryFile(delete=False): a name no existing file has.
NewTmp == CHOOSE n \in 1..(Cardinality(tmpFiles) + 1) : n \notin tmpFiles

\* LogWriter.write appends a line to log.txt.
LogWrite(line) == logFile' = logFile \cup { line }

\* scan_bucket_for_recent_media, line 38: the paginator fetches the next
\* page of the listing, or the storage call fails.
FetchPage ==
    /\ pc = "scanning"
    /\ pageLeft = 0
    /\ pagesFetched < MaxPages
    /\ \E ok \in BOOLEAN :
        IF ok
        THEN /\ \E n \in 0..(MaxObjects - objsSeen) : pageLeft' = n
             /\ pagesFetched' = pagesFetched + 1
             /\ UNCHANGED << pc, exc >>
        ELSE /\ Raise("ClientError", "scan_bucket_for_recent_media")
             /\ UNCHANGED << pageLeft, pagesFetched >>
    /\ UNCHANGED << auxVars,
                    timestamp, fsVars, objsSeen, obj, media_files,
                    empty_s3_flag, procVars, upVars, result >>

\* ScanObject as it would be if the append of line 57 stood before the call
\* of validate_file: a downloaded object stays in the list when validation
\* rejects it.
ScanObject_AppendBeforeValidate ==
    /\ pc = "scanning"
    /\ pageLeft > 0
    /\ \E o \in Objects, logOK \in BOOLEAN :
        LET sanitized_name == sanitize_filename(o.Key)
            tmp_path == NewTmp
            verdict == IF o.Readable
                       THEN validate_file(sanitized_name, o.Body)
                       ELSE "download failed"
        IN  /\ obj' = o
            /\ objsSeen' = objsSeen + 1
            /\ pageLeft' = pageLeft - 1
            /\ IF ~PassesFilter(o)
               THEN UNCHANGED << pc, exc, media_files, tmpFiles, logFile >>
               ELSE IF verdict = "ok"
               THEN /\ media_files' = Append(media_files,
                            [ key |-> o.Key, local_path |-> tmp_path ])
                    /\ tmpFiles' = tmpFiles \cup { tmp_path }
                    /\ UNCHANGED << pc, exc, logFile >>
               ELSE IF logOK
               THEN /\ LogWrite([ line |-> "Processing Status: Failed",
                                  Filename |-> sanitized_name,
                                  Error |-> verdict ])
                    /\ media_files' =
                         IF o.Readable
                         THEN Append(media_files,
                                [ key |-> o.Key, local_path |-> tmp_path ])
                         ELSE media_files
                    /\ UNCHANGED << pc, exc, tmpFiles >>
               ELSE /\ Raise("OSError", "scan_bucket_for_recent_media")
                    /\ tmpFiles' = tmpFiles \cup { tmp_path }
                    /\ UNCHANGED << media_files, logFile >>
    /\ UNCHANGED << auxVars,
                    timestamp, wsExists, outFiles, rmtreeCalls, pagesFetched,
                    empty_s3_flag, procVars, upVars, result >>

\* scan_bucket_for_recent_media, lines 39-76: one iteration of the inner
\* loop.  logOK: log.txt can be written during this iteration.
ScanObject ==
    /\ pc = "scanning"
    /\ pageLeft > 0
    /\ \E o \in Objects, logOK \in BOOLEAN :
        LET sanitized_name == sanitize_filename(o.Key)
            tmp_path == NewTmp
            verdict == IF o.Readable
                       THEN validate_file(sanitized_name, o.Body)
                       ELSE "download failed"
        IN  /\ obj' = o
            /\ objsSeen' = objsSeen + 1
            /\ pageLeft' = pageLeft - 1
            /\ IF ~PassesFilter(o)
               THEN UNCHANGED << pc, exc, media_files, tmpFiles, logFile >>
               ELSE IF verdict = "ok"
               THEN /\ media_files' = Append(media_files,
                            [ key |-> o.Key, local_path |-> tmp_path ])
                    /\ tmpFiles' = tmpFiles \cup { tmp_path }
                    /\ UNCHANGED << pc, exc, logFile >>
               ELSE IF logOK
               THEN \* except clause: log the failure, remove the temp file
                    /\ LogWrite([ line |-> "Processing Status: Failed",
                                  Filename |-> sanitized_name,
                                  Error |-> verdict ])
                    /\ UNCHANGED << pc, exc, media_files, tmpFiles >>
               ELSE \* logger.write raises inside the except clause
                    /\ Raise("OSError", "scan_bucket_for_recent_media")
                    /\ tmpFiles' = tmpFiles \cup { tmp_path }
                    /\ UNCHANGED << media_files, logFile >>
    /\ UNCHANGED << auxVars,
                    timestamp, wsExists, outFiles, rmtreeCalls, pagesFetched,
                    empty_s3_flag, procVars, upVars, result >>

\* ScanReturn as it would be without the test of line 96: the processing
\* and upload stages run on an empty list too.
ScanReturn_NoBranch ==
    /\ pc = "scanning"
    /\ pageLeft = 0
    /\ pagesFetched >= 1
    /\ pagesFetched' = 0
    /\ objsSeen' = 0
    /\ obj' = NoObject
    /\ pc' = "processing"
    /\ empty_s3_flag' = (media_files = << >>)
    /\ UNCHANGED << auxVars,
                    exc, timestamp, fsVars, pageLeft, media_files,
                    procVars, upVars, result >>

\* scan_bucket_for_recent_media returns (line 78) and the run branches on
\* the list (lines 96-101).
ScanReturn ==
    /\ pc = "scanning"
    /\ pageLeft = 0
    /\ pagesFetched >= 1
    /\ pagesFetched' = 0
    /\ objsSeen' = 0
    /\ obj' = NoObject
    /\ IF media_files # << >>
       THEN pc' = "processing" /\ empty_s3_flag' = empty_s3_flag
       ELSE pc' = "finally" /\ empty_s3_flag' = TRUE
    /\ UNCHANGED << auxVars,
                    exc, timestamp, fsVars, pageLeft, media_files,
                    procVars, upVars, result >>

\* ProcessFile as it would be if the except clause ended the loop: after a
\* failed candidate the function returns without handling the rest.
ProcessFile_BreakOnFailure ==
    /\ pc = "processing"
    /\ idx < Len(media_files)
    /\ \E api \in ApiResults, logOK \in BOOLEAN :
        LET key == media_files[idx + 1].key
            local_path == media_files[idx + 1].local_path
            e == HTTPExceptionOf(api)
        IN  IF ~logOK
            THEN /\ Raise("OSError", "process_batch_files")
                 /\ UNCHANGED << logFile, outFiles, tmpFiles, procVars >>
            ELSE /\ attempts' = Append(attempts, [ key |-> key, api |-> api ])
                 /\ tmpFiles' = tmpFiles \ { local_path }
                 /\ UNCHANGED << pc, exc >>
                 /\ IF api.type = "ok"
                    THEN /\ idx' = idx + 1
                         /\ outFiles' = (VttName(key) :> key) @@ outFiles
                         /\ logFile' = logFile \cup
                              { [ line |-> "Processing file", key |-> key ],
                                [ line |-> "Successfully generated VTT",
                                  name |-> VttName(key) ],
                                [ line |-> "Cleaned up local file",
                                  path |-> local_path ] }
                         /\ success_count' = success_count + 1
                         /\ UNCHANGED << failure_count, error_summary >>
                    ELSE /\ idx' = Len(media_files)
                         /\ logFile' = logFile \cup
                              { [ line |-> "Processing file", key |-> key ],
                                [ line |-> "Error processing",
                                  key |-> key, error |-> e ] }
                         /\ error_summary' = Append(error_summary,
                                [ key |-> key, error |-> e ])
                         /\ failure_count' = failure_count + 1
                         /\ UNCHANGED << outFiles, success_count >>
    /\ UNCHANGED << auxVars,
                    timestamp, wsExists, rmtreeCalls, scanVars,
                    empty_s3_flag, upVars, result >>

\* ProcessFile as it would be without the append of line 135: a failure
\* is counted and logged but not listed.
ProcessFile_ErrorNotListed ==
    /\ pc = "processing"
    /\ idx < Len(media_files)
    /\ \E api \in ApiResults, logOK \in BOOLEAN :
        LET key == media_files[idx + 1].key
            local_path == media_files[idx + 1].local_path
            e == HTTPExceptionOf(api)
        IN  IF ~logOK
            THEN \* logger.write of line 124 raises, outside the try block
                 /\ Raise("OSError", "process_batch_files")
                 /\ UNCHANGED << logFile, outFiles, tmpFiles, procVars >>
            ELSE /\ idx' = idx + 1
                 /\ attempts' = Append(attempts, [ key |-> key, api |-> api ])
                 /\ tmpFiles' = tmpFiles \ { local_path }
                 /\ UNCHANGED << pc, exc >>
                 /\ IF api.type = "ok"
                    THEN /\ outFiles' = (VttName(key) :> key) @@ outFiles
                         /\ logFile' = logFile \cup
                              { [ line |-> "Processing file", key |-> key ],
                                [ line |-> "Successfully generated VTT",
                                  name |-> VttName(key) ],
                                [ line |-> "Cleaned up local file",
                                  path |-> local_path ] }
                         /\ success_count' = success_count + 1
                         /\ UNCHANGED << failure_count, error_summary >>
                    ELSE /\ logFile' = logFile \cup
                              { [ line |-> "Processing file", key |-> key ],
                                [ line |-> "Error processing",
                                  key |-> key, error |-> e ] }
                         /\ failure_count' = failure_count + 1
                         /\ UNCHANGED << outFiles, success_count,
                                         error_summary >>
    /\ UNCHANGED << auxVars,
                    timestamp, wsExists, rmtreeCalls, scanVars,
                    empty_s3_flag, upVars, result >>

\* process_batch_files, lines 123-138: one iteration of the loop.
ProcessFile ==
    /\ pc = "processing"
    /\ idx < Len(media_files)
    /\ \E api \in ApiResults, logOK \in BOOLEAN :
        LET key == media_files[idx + 1].key
            local_path == media_files[idx + 1].local_path
            e == HTTPExceptionOf(api)
        IN  IF ~logOK
            THEN \* logger.write of line 124 raises, outside the try block
                 /\ Raise("OSError", "process_batch_files")
                 /\ UNCHANGED << logFile, outFiles, tmpFiles, procVars >>
            ELSE /\ idx' = idx + 1
                 /\ attempts' = Append(attempts, [ key |-> key, api |-> api ])
                 /\ tmpFiles' = tmpFiles \ { local_path }
                 /\ UNCHANGED << pc, exc >>
                 /\ IF api.type = "ok"
                    THEN /\ outFiles' = (VttName(key) :> key) @@ outFiles
                         /\ logFile' = logFile \cup
                              { [ line |-> "Processing file", key |-> key ],
                                [ line |-> "Successfully generated VTT",
                                  name |-> VttName(key) ],
                                [ line |-> "Cleaned up local file",
                                  path |-> local_path ] }
                         /\ success_count' = success_count + 1
                         /\ UNCHANGED << failure_count, error_summary >>
                    ELSE /\ logFile' = logFile \cup
                              { [ line |-> "Processing file", key |-> key ],
                                [ line |-> "Error processing",
                                  key |-> key, error |-> e ] }
                         /\ error_summary' = Append(error_summary,
                                [ key |-> key, error |-> e ])
                         /\ failure_count' = failure_count + 1
                         /\ UNCHANGED << outFiles, success_count >>
    /\ UNCHANGED << auxVars,
                    timestamp, wsExists, rmtreeCalls, scanVars,
                    empty_s3_flag, upVars, result >>

\* process_batch_files returns (line 140) and upload_output_to_s3 starts
\* (lines 143-144): os.listdir(output_dir) is taken once.
BeginUpload ==
    /\ pc = "processing"
    /\ idx = Len(media_files)
    /\ \E logOK \in BOOLEAN :
        IF logOK
        THEN /\ LogWrite([ line |-> "Uploading files to S3..." ])
             /\ pending' = DOMAIN outFiles \cup { LogName }
             /\ pc' = "uploading"
             /\ exc' = exc
        ELSE /\ Raise("OSError", "upload_output_to_s3")
             /\ UNCHANGED << logFile, pending >>
    /\ UNCHANGED << auxVars,
                    timestamp, wsExists, outFiles, tmpFiles, rmtreeCalls,
                    scanVars, empty_s3_flag, procVars, puts, stored, result >>

\* What a file of output_dir holds.
BodyOf(filename) == IF filename = LogName THEN "log" ELSE outFiles[filename]

\* s3.upload_file_to_s3(file_path, s3_key) with the storage's answer.
Put(s3_key, body, ok) ==
    /\ puts' = puts (+) SetToBag({ [ key |-> s3_key, body |-> body ] })
    /\ stored' = IF ok THEN (s3_key :> body) @@ stored ELSE stored

\* UploadFile as it would be without the try block of lines 146-150: a
\* failed upload ends the upload stage.
UploadFile_NoExcept ==
    /\ pc = "uploading"
    /\ pending # {}
    /\ \E filename \in pending, ok \in BOOLEAN, logOK \in BOOLEAN :
        /\ Put(<< timestamp, filename >>, BodyOf(filename), ok)
        /\ pending' = pending \ { filename }
        /\ IF ~ok
           THEN /\ Raise("ClientError", "upload_output_to_s3")
                /\ UNCHANGED logFile
           ELSE IF logOK
           THEN /\ LogWrite([ line |-> IF ok THEN "Uploaded to S3"
                                             ELSE "Error uploading",
                              name |-> filename ])
                /\ UNCHANGED << pc, exc >>
           ELSE \* logger.write raises in the try block and again in the
                \* except clause
                /\ Raise("OSError", "upload_output_to_s3")
                /\ UNCHANGED logFile
    /\ UNCHANGED << auxVars,
                    timestamp, wsExists, outFiles, tmpFiles, rmtreeCalls,
                    scanVars, empty_s3_flag, procVars, result >>

\* upload_output_to_s3, lines 144-150: one iteration, in the order in which
\* os.listdir returned the names (any order).
UploadFile ==
    /\ pc = "uploading"
    /\ pending # {}
    /\ \E filename \in pending, ok \in BOOLEAN, logOK \in BOOLEAN :
        /\ Put(<< timestamp, filename >>, BodyOf(filename), ok)
        /\ pending' = pending \ { filename }
        /\ IF logOK
           THEN /\ LogWrite([ line |-> IF ok THEN "Uploaded to S3"
                                             ELSE "Error uploading",
                              name |-> filename ])
                /\ UNCHANGED << pc, exc >>
           ELSE \* logger.write raises in the try block and again in the
                \* except clause
                /\ Raise("OSError", "upload_output_to_s3")
                /\ UNCHANGED logFile
    /\ UNCHANGED << auxVars,
                    timestamp, wsExists, outFiles, tmpFiles, rmtreeCalls,
                    scanVars, empty_s3_flag, procVars, result >>

\* upload_log_file_to_s3, lines 152-156, after the loop of
\* upload_output_to_s3 has ended.
UploadLog ==
    /\ pc = "uploading"
    /\ pending = {}
    /\ \E ok \in BOOLEAN, logOK \in BOOLEAN :
        /\ Put(<< timestamp, LogName >>, "log", ok)
        /\ IF ok
           THEN /\ pc' = "finally"
                /\ UNCHANGED << exc, logFile >>
           ELSE IF logOK
           THEN /\ LogWrite([ line |-> "Error uploading log file" ])
                /\ pc' = "finally"
                /\ UNCHANGED exc
           ELSE /\ Raise("OSError", "upload_log_file_to_s3")
                /\ UNCHANGED logFile
    /\ UNCHANGED << auxVars,
                    timestamp, wsExists, outFiles, tmpFiles, rmtreeCalls,
                    scanVars, empty_s3_flag, procVars, pending, result >>

\* Teardown as it would be if the removal stood after the try block instead
\* of in a finally clause: a propagating exception skips it.
Teardown_AfterTry ==
    /\ pc = "finally"
    /\ IF wsExists /\ exc = NoExc
       THEN /\ wsExists' = FALSE
            /\ logFile' = {}
            /\ outFiles' = << >>
            /\ rmtreeCalls' = rmtreeCalls + 1
       ELSE UNCHANGED << wsExists, logFile, outFiles, rmtreeCalls >>
    /\ pc' = IF exc = NoExc THEN "return" ELSE "done"
    /\ UNCHANGED << auxVars,
                    exc, timestamp, tmpFiles, scanVars, empty_s3_flag,
                    procVars, upVars, result >>

\* The finally clause, lines 102-104.
Teardown ==
    /\ pc = "finally"
    /\ IF wsExists
       THEN /\ wsExists' = FALSE
            /\ logFile' = {}
            /\ outFiles' = << >>
            /\ rmtreeCalls' = rmtreeCalls + 1
       ELSE UNCHANGED << wsExists, logFile, outFiles, rmtreeCalls >>
    /\ pc' = IF exc = NoExc THEN "return" ELSE "done"
    /\ UNCHANGED << auxVars,
                    exc, timestamp, tmpFiles, scanVars, empty_s3_flag,
                    procVars, upVars, result >>

\* Return as it would be if a run with a failed upload reported no success.
Return_UploadAware ==
    /\ pc = "return"
    /\ result' =
         IF \E u \in BagToSet(puts) : u.key \notin DOMAIN stored
         THEN summarize_batch_results(0, failure_count, error_summary,
                                      empty_s3_flag)
         ELSE summarize_batch_results(success_count, failure_count,
                                      error_summary, empty_s3_flag)
    /\ pc' = "done"
    /\ UNCHANGED << auxVars,
                    exc, timestamp, fsVars, scanVars, empty_s3_flag,
                    procVars, upVars >>

\* Line 106.
Return ==
    /\ pc = "return"
    /\ result' = summarize_batch_results(success_count, failure_count,
                                         error_summary, empty_s3_flag)
    /\ pc' = "done"
    /\ UNCHANGED << auxVars,
                    exc, timestamp, fsVars, scanVars, empty_s3_flag,
                    procVars, upVars >>

Next ==
    \/ Setup
    \/ FetchPage
    \/ ScanObject
    \/ ScanReturn
    \/ ProcessFile
    \/ BeginUpload
    \/ UploadFile
    \/ UploadLog
    \/ Teardown
    \/ Return

Spec == Init /\ [][Next]_vars

\* The run is one coroutine that nothing suspends for ever: as long as a
\* step is possible, one is taken.
SpecFair == Spec /\ WF_vars(Next)

\* ----------------------------------------- the functions, called directly
\* Longest string given to sanitize_filename.
MaxLen == 3

\* Characters of the strings given to sanitize_filename: an ASCII letter and
\* digit, the path separator, the two punctuation marks the pattern keeps,
\* a character it replaces, and a letter outside ASCII.
Alphabet == { "a", "4", "/", ".", "-", " ", "e_acute" }

Strings == UNION { [ 1..n -> Alphabet ] : n \in 0..MaxLen }

\* Filenames given to validate_file: empty, allow-listed extensions in both
\* cases, an extension not allow-listed, a dot file and no extension.
Filenames ==
    { << >>, << "c", ".", "m", "p", "4" >>, << "c", ".", "M", "P", "4" >>,
      KeyN, << ".", "m", "p", "4" >>, << "c" >> }

\* Failures of client.audio.transcriptions.create with their messages; an
\* APIStatusError may carry an empty message.
ApiAnswers ==
    ApiResults \cup
    { [ type |-> "APIStatusError", status_code |-> 500, message |-> "" ],
      [ type |-> "APIStatusError", status_code |-> 503, message |-> "boom" ],
      [ type |-> "OpenAIError", message |-> "" ] }

FnCalls ==
    [ fn : { "validate_file" }, filename : Filenames, contents : Contents ]
    \cup [ fn : { "sanitize_filename" }, filename : Strings ]
    \cup [ fn : { "transcribe_with_openai_api" }, api : ApiAnswers ]

InitFn ==
    RunInit /\ HttpInit /\ MultiInit /\ call \in FnCalls /\ rets = << >>

\* validate_file(filename, contents) is called.
CallValidate ==
    /\ call.fn = "validate_file"
    /\ rets = << >>
    /\ rets' = << validate_file(call.filename, call.contents) >>
    /\ UNCHANGED << call, runVars, httpVars, multiVars >>

\* sanitize_filename is called on the string, then on its own result.
CallSanitize ==
    /\ call.fn = "sanitize_filename"
    /\ Len(rets) < 2
    /\ rets' = Append(rets, sanitize_filename(IF rets = << >>
                                              THEN call.filename
                                              ELSE rets[Len(rets)]))
    /\ UNCHANGED << call, runVars, httpVars, multiVars >>

\* transcribe_with_openai_api is called and the API answers call.api: the
\* function returns, or raises the HTTPException recorded in rets.
CallTranscribe ==
    /\ call.fn = "transcribe_with_openai_api"
    /\ rets = << >>
    /\ rets' = << IF call.api.type = "ok"
                  THEN [ status_code |-> 200, detail |-> << "returned" >> ]
                  ELSE HTTPExceptionOf(call.api) >>
    /\ UNCHANGED << call, runVars, httpVars, multiVars >>

NextFn ==
    \/ CallValidate
    \/ CallSanitize
    \/ CallTranscribe

SpecFn == InitFn /\ [][NextFn]_vars

\* -------------------------------------- api/index.py, /batch-generate-vtt
\* Requests sent to the service.
MaxRequests == 4

\* settings.RATE_LIMIT: requests accepted per window.
RATE_LIMIT == 2

\* settings.API_KEY
API_KEY == "the key"

\* Values of the X-API-Key header of a request.
HeaderValues == { "absent", API_KEY, "another key" }

\* verify_api_key
verify_api_key(x_api_key) ==
    IF x_api_key # API_KEY
    THEN [ status_code |-> 403, content |-> "Unauthorized" ]
    ELSE [ status_code |-> 200, content |-> "passed" ]

\* Names bound in the body of batch_generate_vtt: its parameters.
HandlerNames == { "request", "_" }

\* Names bound at module level in api/index.py that the handler reads.
ModuleNames ==
    { "API_KEY", "RATE_LIMIT", "HTTPException", "JSONResponse",
      "run_openai_batch_transcription", "print", "Exception" }

\* Ends of run_openai_batch_transcription as the handler sees them: the
\* status of a returned result, or "raised" for an exception.
BatchOutcomes ==
    { summarize_batch_results(1, 0, << >>, FALSE).status,
      summarize_batch_results(1, 1, << >>, FALSE).status,
      summarize_batch_results(0, 1, << >>, FALSE).status,
      summarize_batch_results(0, 0, << >>, TRUE).status,
      "raised" }

\* The body of batch_generate_vtt, lines 161-171.  Line 161 reads the name
\* x_api_key; reading a name bound neither locally nor in the module raises
\* NameError outside the try block, which the server answers with 500.
batch_generate_vtt(outcome) ==
    IF "x_api_key" \notin HandlerNames \cup ModuleNames
    THEN [ status_code |-> 500, content |-> "Internal Server Error" ]
    ELSE IF outcome = "raised"
    THEN [ status_code |-> 500, content |-> "Batch transcription failed" ]
    ELSE [ status_code |-> 200, content |-> outcome ]

\* One POST /batch-generate-vtt: the limiter, then the Header(...) and
\* verify_api_key dependencies, then the body of the handler.
HandleRequest ==
    /\ Len(served) < MaxRequests
    /\ \E x_api_key \in HeaderValues, outcome \in BatchOutcomes :
         LET limited == hits >= RATE_LIMIT
             response ==
                 IF limited
                 THEN [ status_code |-> 429,
                        content |-> "Rate limit exceeded" ]
                 ELSE IF x_api_key = "absent"
                 THEN [ status_code |-> 422, content |-> "Field required" ]
                 ELSE IF verify_api_key(x_api_key).status_code # 200
                 THEN verify_api_key(x_api_key)
                 ELSE batch_generate_vtt(outcome)
         IN  /\ hits' = IF limited THEN hits ELSE hits + 1
             /\ served' = Append(served, [ x_api_key |-> x_api_key,
                                           limited |-> limited,
                                           response |-> response ])
    /\ UNCHANGED << runVars, fnVars, multiVars >>

\* The limiter's window ends.
WindowExpires ==
    /\ hits > 0
    /\ hits' = 0
    /\ UNCHANGED << served, runVars, fnVars, multiVars >>

NextHttp ==
    \/ HandleRequest
    \/ WindowExpires

InitHttp == RunInit /\ FnInit /\ HttpInit /\ MultiInit

SpecHttp == InitHttp /\ [][NextHttp]_vars

\* ------------------------------ several runs sharing /tmp and the bucket
\* In this part the storage and the API calls other than the transcription
\* and the uploads succeed, and a run has at most one candidate.

\* s3.scan_bucket_for_recent_media, lines 31-32 and 43: the filter for a scan
\* whose check time is now, in seconds; TIME_WINDOW is in minutes.
PassesFilterAt(o, now) ==
    /\ EndsWithAny(Lower(o.Key), ALLOWED_EXTENSIONS)
    /\ o.LastModified >= now - TIME_WINDOW * 60

\* Answers of the transcription API used for the runs: success and one
\* failure.
RunApiResults == { a \in ApiResults : a.type \in { "ok", "RateLimitError" } }

\* LogWriter.write on {dir}/log.txt: open(..., "a") creates the file when
\* the directory has none.
Logged(fs, dir, r) ==
    IF \E f \in fs : f.dir = dir /\ f.name = LogName
    THEN fs
    ELSE fs \cup { [ dir |-> dir, name |-> LogName, by |-> r ] }

\* An exception leaves the try block of run r.
RaiseIn(r, e, fn) ==
    /\ rpc' = [ rpc EXCEPT ![r] = "finally" ]
    /\ rexc' = [ rexc EXCEPT ![r] = [ type |-> e, raised_in |-> fn ] ]

\* run_openai_batch_transcription, lines 84-86: the timestamp is taken and
\* setup_transcription_directory makes /tmp/{timestamp} (exist_ok=True) and
\* writes the first lines of the log.
StartRun(r) ==
    /\ rpc[r] = "idle"
    /\ \A q \in Runs : q < r => rpc[q] # "idle"
    /\ LET ts == strftime(clock)
       IN  /\ rstart' = [ rstart EXCEPT ![r] = clock ]
           /\ rts' = [ rts EXCEPT ![r] = ts ]
           /\ dirs' = dirs \cup { ts }
           /\ files' = Logged(files, ts, r)
    /\ rpc' = [ rpc EXCEPT ![r] = "scanning" ]
    /\ UNCHANGED << clock, source, outputs, rcands, rsucc, rfailed, rexc,
                    rresult, runVars, fnVars, httpVars >>

\* ScanRun as it would be if the service remembered the keys whose
\* transcription failed in a finished run and left them out.
ScanRun_SkipFailed(r) ==
    /\ rpc[r] = "scanning"
    /\ LET now == Seconds(clock)
           eligible == /\ source.Key # << >>
                       /\ PassesFilterAt(source, now)
           remembered ==
               \E q \in Runs : \E i \in 1..Len(rfailed[q]) :
                   rpc[q] = "done" /\ rfailed[q][i].key = source.Key
           accepted ==
               /\ eligible
               /\ ~remembered
               /\ validate_file(sanitize_filename(source.Key),
                                source.Body) = "ok"
       IN  IF accepted
           THEN /\ rcands' = [ rcands EXCEPT ![r] = << source.Key >> ]
                /\ rpc' = [ rpc EXCEPT ![r] = "processing" ]
                /\ UNCHANGED << files, rexc >>
           ELSE IF eligible /\ ~remembered /\ rts[r] \notin dirs
           THEN /\ RaiseIn(r, "FileNotFoundError",
                           "scan_bucket_for_recent_media")
                /\ UNCHANGED << files, rcands >>
           ELSE /\ files' = IF eligible /\ ~remembered
                            THEN Logged(files, rts[r], r) ELSE files
                /\ rpc' = [ rpc EXCEPT ![r] = "finally" ]
                /\ UNCHANGED << rcands, rexc >>
    /\ UNCHANGED << clock, source, outputs, dirs, rstart, rts, rsucc,
                    rfailed, rresult, runVars, fnVars, httpVars >>

\* scan_bucket_for_recent_media, lines 31-78, and the branch of line 96: the
\* check time is taken, the object is filtered, downloaded and validated; a
\* rejected object is logged.
ScanRun(r) ==
    /\ rpc[r] = "scanning"
    /\ LET now == Seconds(clock)
           eligible == /\ source.Key # << >>
                       /\ PassesFilterAt(source, now)
           accepted ==
               /\ eligible
               /\ validate_file(sanitize_filename(source.Key),
                                source.Body) = "ok"
       IN  IF accepted
           THEN /\ rcands' = [ rcands EXCEPT ![r] = << source.Key >> ]
                /\ rpc' = [ rpc EXCEPT ![r] = "processing" ]
                /\ UNCHANGED << files, rexc >>
           ELSE IF eligible /\ rts[r] \notin dirs
           THEN \* logger.write of the except clause finds no directory
                /\ RaiseIn(r, "FileNotFoundError",
                           "scan_bucket_for_recent_media")
                /\ UNCHANGED << files, rcands >>
           ELSE /\ files' = IF eligible
                            THEN Logged(files, rts[r], r) ELSE files
                /\ rpc' = [ rpc EXCEPT ![r] = "finally" ]
                /\ UNCHANGED << rcands, rexc >>
    /\ UNCHANGED << clock, source, outputs, dirs, rstart, rts, rsucc,
                    rfailed, rresult, runVars, fnVars, httpVars >>

\* process_batch_files, lines 118-140, for the candidate of run r.
ProcessRun(r) ==
    /\ rpc[r] = "processing"
    /\ LET key == rcands[r][1]
           ts == rts[r]
       IN  IF ts \notin dirs
           THEN \* logger.write of line 124, outside the try block
                /\ RaiseIn(r, "FileNotFoundError", "process_batch_files")
                /\ UNCHANGED << files, rsucc, rfailed >>
           ELSE \E api \in RunApiResults :
                /\ rpc' = [ rpc EXCEPT ![r] = "uploading" ]
                /\ rexc' = rexc
                /\ IF api.type = "ok"
                   THEN \* os.replace(vtt_path, final_path)
                        /\ files' =
                             { f \in Logged(files, ts, r) :
                                 ~(f.dir = ts /\ f.name = VttName(key)) }
                             \cup { [ dir |-> ts, name |-> VttName(key),
                                      by |-> r ] }
                        /\ rsucc' = [ rsucc EXCEPT ![r] = 1 ]
                        /\ UNCHANGED rfailed
                   ELSE /\ files' = Logged(files, ts, r)
                        /\ rfailed' = [ rfailed EXCEPT ![r] =
                              << [ key |-> key,
                                   error |-> HTTPExceptionOf(api) ] >> ]
                        /\ UNCHANGED rsucc
    /\ UNCHANGED << clock, source, outputs, dirs, rstart, rts, rcands,
                    rresult, runVars, fnVars, httpVars >>

\* upload_output_to_s3 and upload_log_file_to_s3, lines 142-156: every file
\* that os.listdir finds in /tmp/{timestamp} is put at {timestamp}/{name},
\* then the log once more; the storage answers all these puts or fails
\* them all (failed holds the names whose puts fail).
UploadRun(r) ==
    /\ rpc[r] = "uploading"
    /\ LET ts == rts[r]
           listing == { f.name : f \in { g \in files : g.dir = ts } }
       IN  IF ts \notin dirs
           THEN \* logger.write of line 143
                /\ RaiseIn(r, "FileNotFoundError", "upload_output_to_s3")
                /\ UNCHANGED << files, outputs >>
           ELSE \E failed \in { {}, listing \cup { LogName } } :
                LET done == { << ts, n >> :
                                n \in (listing \cup { LogName }) \ failed }
                IN  /\ outputs' =
                         [ k \in DOMAIN outputs \cup done |->
                             IF k \in done
                             THEN [ by |-> r, LastModified |-> clock ]
                             ELSE outputs[k] ]
                    /\ files' = Logged(files, ts, r)
                    /\ rpc' = [ rpc EXCEPT ![r] = "finally" ]
                    /\ rexc' = rexc
    /\ UNCHANGED << clock, source, dirs, rstart, rts, rcands, rsucc,
                    rfailed, rresult, runVars, fnVars, httpVars >>

\* The finally clause and the return, lines 102-106.
TeardownRun(r) ==
    /\ rpc[r] = "finally"
    /\ dirs' = dirs \ { rts[r] }
    /\ files' = { f \in files : f.dir # rts[r] }
    /\ rpc' = [ rpc EXCEPT ![r] = "done" ]
    /\ rresult' = [ rresult EXCEPT ![r] =
          IF rexc[r] # NoExc THEN NoResult
          ELSE summarize_batch_results(rsucc[r], Len(rfailed[r]),
                                       rfailed[r], rcands[r] = << >>) ]
    /\ UNCHANGED << clock, source, outputs, rstart, rts, rcands, rsucc,
                    rfailed, rexc, runVars, fnVars, httpVars >>

\* Time passes.
Tick ==
    /\ \E t \in ClockValues :
          /\ Seconds(t) > Seconds(clock)
          /\ clock' = t
    /\ UNCHANGED << source, outputs, dirs, files, rpc, rstart, rts, rcands,
                    rsucc, rfailed, rexc, rresult, runVars, fnVars,
                    httpVars >>

\* Someone uploads the media object again, with contents that validate or
\* not.
PutSource ==
    /\ \E body \in { GoodBody, BadBody } :
          /\ source' = [ Key |-> KeyT, LastModified |-> Seconds(clock),
                         Body |-> body ]
          /\ source' # source
    /\ UNCHANGED << clock, outputs, dirs, files, rpc, rstart, rts, rcands,
                    rsucc, rfailed, rexc, rresult, runVars, fnVars,
                    httpVars >>

\* Someone deletes the media object.
DeleteSource ==
    /\ source.Key # << >>
    /\ source' = NoObject
    /\ UNCHANGED << clock, outputs, dirs, files, rpc, rstart, rts, rcands,
                    rsucc, rfailed, rexc, rresult, runVars, fnVars,
                    httpVars >>

NextRuns ==
    \/ \E r \in Runs : StartRun(r)
    \/ \E r \in Runs : ScanRun(r)
    \/ \E r \in Runs : ProcessRun(r)
    \/ \E r \in Runs : UploadRun(r)
    \/ \E r \in Runs : TeardownRun(r)
    \/ Tick
    \/ PutSource
    \/ DeleteSource

InitRuns == RunInit /\ FnInit /\ HttpInit /\ MultiInit

SpecRuns == InitRuns /\ [][NextRuns]_vars


\* ================================================================ claims
\* The run is over and setup_transcription_directory had completed.
RunEnded == pc = "done" /\ exc.raised_in # "setup_transcription_directory"
\* The run is over and returned a result.
Returned == pc = "done" /\ exc = NoExc
\* process_batch_files has returned its counters to the run.
ProcessingFinished ==
    /\ pc \in { "uploading", "finally", "return", "done" }
    /\ media_files # << >>
    /\ exc.raised_in \in { "none", "upload_output_to_s3",
                           "upload_log_file_to_s3" }
\* upload_output_to_s3 and upload_log_file_to_s3 have both returned.
UploadFinished ==
    /\ pc \in { "finally", "return", "done" }
    /\ media_files # << >>
    /\ exc = NoExc

\* C1: once the workspace has been set up, shutil.rmtree is never called
\* twice, and when the run ends (by return or by an exception raised while
\* scanning, processing or uploading) the workspace directory has been
\* removed exactly once and does not exist.
C1_WorkspaceRemovedOnce ==
    /\ rmtreeCalls <= 1
    /\ RunEnded => (~wsExists /\ rmtreeCalls = 1)

\* C1 witness: the listing failed on a later page, after an object of an
\* earlier page had been downloaded, and the run ended with the exception.
C1_Witness ==
    /\ RunEnded
    /\ exc = [ type |-> "ClientError",
               raised_in |-> "scan_bucket_for_recent_media" ]
    /\ pagesFetched >= 1
    /\ media_files # << >>
    /\ ~wsExists
    /\ rmtreeCalls = 1

\* C2 (as claimed): when the run ends no local scratch file of the run
\* remains: no downloaded temp file, no subtitle file, no log file.
C2_NoScratchFileRemains ==
    pc = "done" => (tmpFiles = {} /\ outFiles = << >> /\ logFile = {})

\* C3: process_batch_files calls the transcription once per candidate, in
\* list order; when it returns every candidate has been attempted, whatever
\* the outcomes were; and no exception that leaves it comes from a
\* transcription outcome.
C3_EveryCandidateAttemptedOnce ==
    /\ idx <= Len(media_files)
    /\ Len(attempts) = idx
    /\ \A i \in 1..Len(attempts) : attempts[i].key = media_files[i].key
    /\ ProcessingFinished => Len(attempts) = Len(media_files)
    /\ exc.raised_in = "process_batch_files" => exc.type = "OSError"

\* C3 witness: the first candidate was rate limited, the second one was
\* attempted afterwards and succeeded.
C3_Witness ==
    /\ ProcessingFinished
    /\ Len(attempts) = 2
    /\ attempts[1].api.type = "RateLimitError"
    /\ attempts[2].api.type = "ok"
    /\ success_count = 1
    /\ failure_count = 1

\* C4: when processing has finished, success_count + failure_count is the
\* number of candidates the scan returned.
C4_CountsAddUp ==
    /\ success_count + failure_count = idx
    /\ ProcessingFinished =>
           success_count + failure_count = Len(media_files)

\* C4 witness: two candidates, one succeeded and one failed.
C4_Witness ==
    /\ ProcessingFinished
    /\ Len(media_files) = 2
    /\ success_count = 1
    /\ failure_count = 1


\* The entries of the error list that the transcription outcomes call for.
FailedEntries ==
    LET bad == SelectSeq(attempts, LAMBDA a : a.api.type # "ok")
    IN  [ i \in 1..Len(bad) |->
            [ key |-> bad[i].key, error |-> HTTPExceptionOf(bad[i].api) ] ]
NumOk == Cardinality({ i \in 1..Len(attempts) : attempts[i].api.type = "ok" })
NumFailed ==
    Cardinality({ i \in 1..Len(attempts) : attempts[i].api.type # "ok" })

\* C5: a run with at least one candidate returns status failed when every
\* transcription failed, partial_success when some succeeded and some
\* failed, success when all succeeded; the counters equal the numbers of
\* succeeded and failed transcriptions, and a failed or partial_success
\* result carries one error entry per failed candidate.
C5_StatusFromOutcomes ==
    (Returned /\ media_files # << >>) =>
        /\ success_count = NumOk
        /\ failure_count = NumFailed
        /\ result.status = IF NumOk = 0 THEN "failed"
                           ELSE IF NumFailed > 0 THEN "partial_success"
                           ELSE "success"
        /\ NumFailed > 0 => result.errors = FailedEntries

\* C5 witness: a returned partial_success with one success and one failure.
C5_Witness ==
    /\ Returned
    /\ result.status = "partial_success"
    /\ Len(result.errors) = 1
    /\ success_count = 1
    /\ failure_count = 1

\* C6 (as claimed): the result of a run that found no candidate has a status
\* value different from the ones returned for all-failed, some-failed and
\* all-succeeded runs.
C6_EmptyStatusDistinct ==
    (Returned /\ media_files = << >>) =>
        result.status \notin
            { summarize_batch_results(0, 1, << >>, FALSE).status,
              summarize_batch_results(1, 1, << >>, FALSE).status,
              summarize_batch_results(1, 0, << >>, FALSE).status }

\* Calls of s3.upload_file for the run's log.
LogPuts == CopiesIn([ key |-> << timestamp, LogName >>, body |-> "log" ], puts)

\* C7 (as claimed, for the runs that reach the upload stage): when the run
\* has returned, the log file has been uploaded at {timestamp}/log.txt
\* exactly once.
C7_LogUploadedOnce ==
    (Returned /\ media_files # << >>) => LogPuts = 1

\* C8 (as claimed): once the upload stage is over, for every candidate whose
\* transcription succeeded an upload of its subtitle was attempted at
\* {timestamp}/{B}.vtt, B the base name of its key without directories and
\* extension.
C8_SubtitleUploadedAtDerivedKey ==
    UploadFinished =>
        \A i \in 1..Len(attempts) :
            attempts[i].api.type = "ok" =>
                LET K == attempts[i].key
                    B == Splitext(Basename(K))[1]
                IN  CopiesIn([ key |-> << timestamp, B \o VttExt >>,
                               body |-> K ], puts) >= 1

ScanStep == pc = "scanning" /\ objsSeen' = objsSeen + 1
\* The iteration appended obj' to the candidate list / left the list alone.
Appended ==
    /\ Len(media_files') = Len(media_files) + 1
    /\ SubSeq(media_files', 1, Len(media_files)) = media_files
    /\ media_files'[Len(media_files')].key = obj'.Key
NotAppended == media_files' = media_files
\* The claim's condition: allow-listed extension (case-insensitive) and
\* last-modified time not before now - minutes.
AllowedAndRecent(o) ==
    /\ Lower(Splitext(o.Key)[2]) \in ALLOWED_EXTENSIONS
    /\ o.LastModified >= Now - TIME_WINDOW

\* C10 (as claimed): an object of the listing becomes a candidate if and
\* only if its extension is allow-listed and it is within the window.
C10_IncludedIffAllowedAndRecent ==
    [][ ScanStep =>
            IF AllowedAndRecent(obj') THEN Appended ELSE NotAppended ]_vars

\* C10 (amended): an object of the listing becomes a candidate if and only
\* if its extension is allow-listed, its last-modified time is not before
\* now - minutes (the boundary included), its download and read succeed and
\* validate_file accepts its sanitized name and its bytes.
C10_IncludedIffAllowedRecentAndValid ==
    [][ ScanStep =>
            IF /\ AllowedAndRecent(obj')
               /\ obj'.Readable
               /\ validate_file(sanitize_filename(obj'.Key), obj'.Body) = "ok"
            THEN Appended
            ELSE NotAppended ]_vars

\* C10 witness: an object with an upper-case extension, last modified
\* exactly at now - minutes, has just been taken as the first candidate.
C10_Witness ==
    /\ pc = "scanning"
    /\ objsSeen = 1
    /\ obj.Key = KeyB
    /\ obj.LastModified = Now - TIME_WINDOW
    /\ Len(media_files) = 1
    /\ media_files[1].key = KeyB


\* C11 (as claimed): no exception leaves scan_bucket_for_recent_media,
\* whatever storage call or validation fails during the scan.
C11_ScanNeverRaises == exc.raised_in # "scan_bucket_for_recent_media"

\* The iteration found obj' eligible and then failed to download, read or
\* validate it.
ScanFailed ==
    /\ ScanStep
    /\ PassesFilter(obj')
    /\ ~( /\ obj'.Readable
          /\ validate_file(sanitize_filename(obj'.Key), obj'.Body) = "ok" )

\* C12 (as claimed, for the iterations whose except clause completes): when
\* the download, read or validation of an object fails, the run log gets an
\* entry with the object's remote key and the reason, no temp file of the
\* object is left, the object is not in the list and the scan goes on.
C12_ScanFailureLoggedWithKey ==
    [][ (ScanFailed /\ pc' = "scanning") =>
            /\ \E e \in logFile' :
                 /\ e.line = "Processing Status: Failed"
                 /\ e.Filename = obj'.Key
            /\ tmpFiles' = tmpFiles
            /\ NotAppended ]_vars

\* C13: the candidate list grows only by an object that the same scan
\* iteration downloaded and validate_file accepted, its temp file in place;
\* and every transcription call is made on the next entry of that list,
\* whose temp file exists.
C13_OnlyValidatedCandidatesTranscribed ==
    [][ /\ media_files' # media_files =>
              /\ ScanStep
              /\ Appended
              /\ obj'.Readable
              /\ validate_file(sanitize_filename(obj'.Key), obj'.Body) = "ok"
              /\ media_files'[Len(media_files')].local_path \in tmpFiles'
        /\ attempts' # attempts =>
              /\ pc = "processing"
              /\ idx < Len(media_files)
              /\ Len(attempts') = Len(attempts) + 1
              /\ attempts'[Len(attempts')].key = media_files[idx + 1].key
              /\ media_files[idx + 1].local_path \in tmpFiles ]_vars

\* C13 witness: the scan rejected one object and accepted another, and the
\* accepted one has been passed to the transcription.
C13_Witness ==
    /\ pc = "processing"
    /\ Len(media_files) = 1
    /\ Len(attempts) = 1
    /\ \E e \in logFile : e.line = "Processing Status: Failed"

\* C14 (as claimed): no remote key occurs twice in the candidate list.
C14_CandidateKeysUnique ==
    \A i, j \in 1..Len(media_files) :
        i # j => media_files[i].key # media_files[j].key

\* C20 (as claimed): an exception that leaves the run comes from the setup
\* of the workspace, and the workspace directory does not exist when it
\* propagates.
C20_OnlySetupFailurePropagates ==
    (pc = "done" /\ exc # NoExc) =>
        /\ exc.raised_in = "setup_transcription_directory"
        /\ ~wsExists


\* C15: validate_file raises with the reason of the first failing check, in
\* the order filename, extension, sniffed type, size, and returns exactly
\* when the four checks pass; size MAX_FILE_SIZE passes, MAX_FILE_SIZE + 1
\* does not.
C15_FirstFailingCheckWins ==
    (call.fn = "validate_file" /\ rets # << >>) =>
        LET named == call.filename # << >>
            extOk == Lower(Splitext(call.filename)[2]) \in ALLOWED_EXTENSIONS
            typeOk == call.contents.magic \in ALLOWED_MIME_TYPES
            sizeOk == call.contents.size <= MAX_FILE_SIZE
        IN  /\ rets[1] = "No filename provided" <=> ~named
            /\ rets[1] = "File type not supported" <=> named /\ ~extOk
            /\ rets[1] = "File type is not accepted" <=>
                   named /\ extOk /\ ~typeOk
            /\ rets[1] = "File size exceeds the limit" <=>
                   named /\ extOk /\ typeOk /\ ~sizeOk
            /\ rets[1] = "ok" <=> named /\ extOk /\ typeOk /\ sizeOk

\* C15 witness: a file of exactly MAX_FILE_SIZE bytes with an allow-listed
\* extension and type was accepted.
C15_Witness ==
    /\ call.fn = "validate_file"
    /\ rets = << "ok" >>
    /\ call.contents.size = MAX_FILE_SIZE

\* C16 (as claimed): the result of sanitize_filename has no character
\* outside [A-Za-z0-9_.-].
C16_OnlyAsciiSafeCharacters ==
    (call.fn = "sanitize_filename" /\ rets # << >>) =>
        \A i \in 1..Len(rets[1]) :
            rets[1][i] \in (WordChars \ { "e_acute" }) \cup { "-", "." }

\* C17: sanitize_filename applied to its own result returns that result.
C17_SanitizeIdempotent ==
    (call.fn = "sanitize_filename" /\ Len(rets) = 2) => rets[2] = rets[1]

\* C17 witness: sanitize_filename was applied twice to a string with a path
\* component and a replaced character, which the first application changed.
C17_Witness ==
    /\ call.fn = "sanitize_filename"
    /\ Len(rets) = 2
    /\ \E i, j \in 1..Len(call.filename) :
          call.filename[i] = "/" /\ i < j /\ call.filename[j] = " "
    /\ rets[1] # call.filename

\* The five kinds of failure of transcribe_with_openai_api.
Kind(api) ==
    CASE api.type = "RateLimitError" -> "RateLimited"
      [] api.type = "APIConnectionError" -> "Unavailable"
      [] api.type = "APIStatusError" ->
            IF api.status_code = 401 THEN "Unauthorized" ELSE "UpstreamError"
      [] OTHER -> "Unexpected"

\* C18 (as claimed): the error raised for a failure of one kind is never
\* the error raised for a failure of another kind.
C18_KindsDistinguishable ==
    (call.fn = "transcribe_with_openai_api" /\ rets # << >>
        /\ call.api.type # "ok") =>
        \A other \in ApiAnswers \ { [ type |-> "ok" ] } :
            Kind(other) # Kind(call.api) => HTTPExceptionOf(other) # rets[1]


\* C19 (as claimed): a request with the correct API key that the limiter
\* lets through is answered 200 with a batch result.
C19_AuthorizedRequestAnswered200 ==
    \A i \in 1..Len(served) :
        (served[i].x_api_key = API_KEY /\ ~served[i].limited) =>
            /\ served[i].response.status_code = 200
            /\ served[i].response.content \in
                   BatchOutcomes \ { "raised" }


\* Position of a stage in the order Initialized, Scanning, ProcessingFiles,
\* UploadingResults, TearingDown, Done.
Rank(stage) ==
    CASE stage = "init" -> 0
      [] stage = "scanning" -> 1
      [] stage = "processing" -> 2
      [] stage = "uploading" -> 3
      [] stage = "finally" -> 4
      [] OTHER -> 5

\* The step uploads a subtitle file.
SubtitlePut ==
    \E f \in DOMAIN outFiles :
        LET u == [ key |-> << timestamp, f >>, body |-> outFiles[f] ]
        IN  CopiesIn(u, puts') > CopiesIn(u, puts)

\* C21 (as claimed): the stages follow one another without going back, no
\* upload is made before every candidate is processed, no subtitle is
\* uploaded after an upload of the log, and after the removal of the
\* workspace nothing is uploaded and no workspace file changes.
C21_StagesInOrder ==
    [][ /\ Rank(pc') >= Rank(pc)
        /\ puts' # puts => (pc = "uploading" /\ idx = Len(media_files))
        /\ SubtitlePut => LogPuts = 0
        /\ rmtreeCalls > 0 =>
              (puts' = puts /\ logFile' = logFile /\ outFiles' = outFiles)
      ]_vars

\* C22: the error list has failure_count entries, which are the failed
\* attempts in processing order, each with the candidate's remote key and
\* its error; when processing has finished these are the failures of all
\* candidates.
C22_ErrorListMatchesFailures ==
    /\ Len(error_summary) = failure_count
    /\ error_summary = FailedEntries
    /\ \A i \in 1..Len(error_summary) :
          \E j \in 1..Len(attempts) :
              /\ attempts[j].key = error_summary[i].key
              /\ attempts[j].api.type # "ok"
    /\ ProcessingFinished => failure_count = NumFailed
                             /\ Len(attempts) = Len(media_files)

\* C22 witness: two candidates with different keys both failed, with
\* different errors, and both are listed in processing order.
C22_Witness ==
    /\ ProcessingFinished
    /\ Len(error_summary) = 2
    /\ error_summary[1].key = media_files[1].key
    /\ error_summary[2].key = media_files[2].key
    /\ error_summary[1].key # error_summary[2].key
    /\ error_summary[1].error # error_summary[2].error

\* The scan has just rejected the object of key k: its download, read or
\* validation failed and the except clause has completed.
ScanRejected(k) ==
    /\ pc = "scanning"
    /\ obj.Key = k
    /\ PassesFilter(obj)
    /\ ~( /\ obj.Readable
          /\ validate_file(sanitize_filename(obj.Key), obj.Body) = "ok" )

\* C23 (as claimed): when the scan has rejected an object, the result the
\* run returns lists an error for that object's remote key.
C23_ScanErrorsInResult ==
    \A k \in Keys :
        [](ScanRejected(k) =>
             [](Returned =>
                  /\ "errors" \in DOMAIN result
                  /\ \E i \in 1..Len(result.errors) :
                        result.errors[i].key = k))

\* Files of the workspace at upload time.
Listed == DOMAIN outFiles \cup { LogName }

\* C24: the upload stage starts with every file of the workspace to do; a
\* file that is done has had its upload attempted; a failed upload is
\* logged and the stage goes on; only a failing log write, never a failing
\* upload, raises out of the stage; when the stage is over nothing is left
\* to do and the log upload has been attempted.
C24_UploadStageContinues ==
    [][ /\ (pc = "processing" /\ pc' = "uploading") => pending' = Listed
        /\ pc' = "uploading" =>
              \A f \in Listed \ pending' :
                  \E u \in BagToSet(puts') : u.key = << timestamp, f >>
        /\ (pc = "uploading" /\ pending # {} /\ exc' = NoExc) =>
              /\ pc' = "uploading"
              /\ \E f \in pending :
                    /\ pending' = pending \ { f }
                    /\ << timestamp, f >> \notin DOMAIN stored' =>
                          [ line |-> "Error uploading", name |-> f ]
                              \in logFile'
        /\ (pc = "uploading" /\ exc' # NoExc) => exc'.type = "OSError"
        /\ (pc = "uploading" /\ pc' = "finally" /\ exc' = NoExc) =>
              /\ pending = {}
              /\ CopiesIn([ key |-> << timestamp, LogName >>,
                            body |-> "log" ], puts') >= 1
      ]_vars

\* C24 witness: the upload stage is over without an exception; the upload
\* of a subtitle failed and was logged, and the log was uploaded afterwards.
C24_Witness ==
    /\ pc = "finally"
    /\ UploadFinished
    /\ \E f \in DOMAIN outFiles :
          /\ << timestamp, f >> \notin DOMAIN stored
          /\ [ line |-> "Error uploading", name |-> f ] \in logFile
    /\ << timestamp, LogName >> \in DOMAIN stored

\* C28 (as claimed): at upload time the workspace holds one subtitle file
\* for every candidate counted in success_count.
C28_OneSubtitlePerSuccess ==
    pc = "uploading" => Cardinality(DOMAIN outFiles) = success_count

\* C29: the returned result is determined by the transcription outcomes of
\* the candidates alone, whatever the uploads did.
C29_ResultFromOutcomesOnly ==
    Returned =>
        result = summarize_batch_results(NumOk, NumFailed, FailedEntries,
                                         attempts = << >>)

\* C29 witness: every upload of the run failed and the run still returned
\* success.
C29_Witness ==
    /\ Returned
    /\ puts # EmptyBag
    /\ DOMAIN stored = {}
    /\ result.status = "success"


\* Run r has started.
Started(r) == rpc[r] # "idle"
\* Run r is executing.
Active(r) == rpc[r] \notin { "idle", "done" }

\* C25 (as claimed): a step of a run leaves the media object as it is,
\* writes only keys under that run's own timestamp prefix, and leaves every
\* object unchanged that was in the bucket before the run started.
C25_RunLeavesEarlierObjects ==
    [][ \A r \in Runs :
          rpc'[r] # rpc[r] =>
            /\ source' = source
            /\ \A k \in DOMAIN outputs' :
                  (k \notin DOMAIN outputs \/ outputs'[k] # outputs[k]) =>
                      k[1] = rts'[r]
            /\ \A k \in DOMAIN outputs :
                  Seconds(outputs[k].LastModified) < Seconds(rstart'[r]) =>
                      (k \in DOMAIN outputs' /\ outputs'[k] = outputs[k])
      ]_vars

\* C26: a run's scan selects the media object exactly when, at the scan's
\* check time, the object is in the bucket, within the window and valid,
\* whatever earlier runs did with it; and a finished run never starts again.
C26_SelectionFromBucketOnly ==
    [][ \A r \in Runs :
          /\ (rpc[r] = "scanning" /\ rpc'[r] # "scanning"
                /\ rexc'[r] = NoExc) =>
               ( rcands'[r] = << KeyT >> <=>
                   /\ source.Key = KeyT
                   /\ source.LastModified >=
                          Seconds(clock) - TIME_WINDOW * 60
                   /\ source.Body = GoodBody )
          /\ rcands'[r] # << >> => rcands'[r] = << KeyT >>
          /\ rpc[r] = "done" =>
               (rpc'[r] = "done" /\ rcands'[r] = rcands[r]
                  /\ rresult'[r] = rresult[r])
      ]_vars

\* C26 witness: the transcription of the object failed in the first run,
\* which is over, and a run started at a later second has selected the
\* same object again.
C26_Witness ==
    /\ rpc[1] = "done"
    /\ Len(rfailed[1]) = 1
    /\ rfailed[1][1].key = KeyT
    /\ Seconds(rstart[2]) > Seconds(rstart[1])
    /\ rpc[2] = "processing"
    /\ rcands[2] = << KeyT >>

\* C27 (as claimed): two runs that execute at the same time have different
\* workspace names.
C27_ConcurrentWorkspacesDiffer ==
    \A r1, r2 \in Runs :
        (r1 # r2 /\ Active(r1) /\ Active(r2)) => rts[r1] # rts[r2]

\* C30 (as claimed): runs started at different seconds have different
\* timestamps, and a run never overwrites an object put by a run that
\* started at another second.
C30_DistinctSecondsDistinctPrefixes ==
    [][ /\ \A r1, r2 \in Runs :
              ( /\ rpc'[r1] # "idle"
                /\ rpc'[r2] # "idle"
                /\ Seconds(rstart'[r1]) # Seconds(rstart'[r2]) ) =>
                  rts'[r1] # rts'[r2]
        /\ \A k \in DOMAIN outputs :
              outputs'[k].by # outputs[k].by =>
                  Seconds(rstart[outputs'[k].by]) =
                      Seconds(rstart[outputs[k].by])
      ]_vars

====
